---- MODULE Spec2Model ----
(***************************************************************************)
(* Model of the three image-scanning scripts of DeepSeekPassword:          *)
(*   ocr_easyocr.py      (EasyOCR variant)                                 *)
(*   preprocess_image.py (PaddleOCR variant)                               *)
(*   test.py             (Tesseract variant)                               *)
(* Each script is the chain  load -> preprocess -> OCR -> scan -> report.  *)
(* Strings are sequences of one-character strings; an image is a record    *)
(* [h, w, px] whose px maps <<row, column>> to a sequence of channels.     *)
(***************************************************************************)
EXTENDS Integers, Sequences, FiniteSets

VARIABLES
    variant,    \* which script runs: "easyocr", "paddle" or "tesseract"
    pc,         \* position of the run in the script
    image,      \* the image file: [kind, h, w, px]
    loaded,     \* result of cv2.imread / Image.open: [none, h, w, px]
    processed,  \* return value of preprocess_image: [none, h, w, px]
    passes,     \* how many times preprocess_image has been applied
    firstPass,  \* what the first application of preprocess_image returned
    ocrOutput,  \* what the OCR engine recognizes in the image: fragments
    text,       \* the text given to detect_sensitive_words
    wordsArg,   \* the sensitive_words argument: <<>> is None, <<l>> a list l
    found,      \* per variant: [ran, words], the result of the scanner
    out,        \* messages printed so far
    steps       \* stages of the script passed so far

vars == <<variant, pc, image, loaded, processed, passes, firstPass, ocrOutput,
          text, wordsArg, found, out, steps>>

Variants == {"easyocr", "paddle", "tesseract"}
CvVariants == {"easyocr", "paddle"}

(***************************************************************************)
(* Bounds of the model.                                                    *)
(***************************************************************************)
MaxTextLen == 3
MaxWords == 2
ImgH == 2
ImgW == 3
ColH == 2
ColW == 2

(***************************************************************************)
(* Characters and strings.                                                 *)
(***************************************************************************)
UpperLetters ==
    <<"A", "B", "C", "D", "E", "F", "G", "H", "I", "J", "K", "L", "M",
      "N", "O", "P", "Q", "R", "S", "T", "U", "V", "W", "X", "Y", "Z">>

LowerLetters ==
    <<"a", "b", "c", "d", "e", "f", "g", "h", "i", "j", "k", "l", "m",
      "n", "o", "p", "q", "r", "s", "t", "u", "v", "w", "x", "y", "z">>

Digits == {"0", "1", "2", "3", "4", "5", "6", "7", "8", "9"}

Range(s) == {s[i] : i \in 1..Len(s)}

\* str.lower() on one character
LowerChar(c) ==
    IF c \in Range(UpperLetters)
    THEN LowerLetters[CHOOSE i \in 1..Len(UpperLetters) : UpperLetters[i] = c]
    ELSE c

\* str.lower()
LowerStr(s) == [i \in 1..Len(s) |-> LowerChar(s[i])]

\* the regex class \w
IsWordChar(c) ==
    c \in Range(UpperLetters) \cup Range(LowerLetters) \cup Digits \cup {"_"}

\* the default list of detect_sensitive_words
DefaultWords ==
    << <<"p", "a", "s", "s", "w", "o", "r", "d">>,
       <<"s", "e", "c", "r", "e", "t">>,
       <<"c", "r", "e", "d", "e", "n", "t", "i", "a", "l", "s">>,
       <<"p", "a", "s", "s", "w", "d">>,
       <<"p", "w", "d">> >>

Password == DefaultWords[1]
Secret == DefaultWords[2]
Pwd == DefaultWords[5]

\* `if sensitive_words is None: sensitive_words = [...]`
EffectiveWords(arg) == IF arg = <<>> THEN DefaultWords ELSE arg[1]

(***************************************************************************)
(* The regular expressions.  An offset i is the number of characters to    *)
(* the left of a position, 0..Len(t).                                      *)
(***************************************************************************)
\* \b : exactly one of the two neighbours of the offset is a word character
AtBoundary(t, i) ==
    (i >= 1 /\ IsWordChar(t[i])) # (i < Len(t) /\ IsWordChar(t[i + 1]))

\* the literal w matches at offset i under re.IGNORECASE
LiteralAt(t, w, i) ==
    /\ i + Len(w) <= Len(t)
    /\ \A k \in 1..Len(w) : LowerChar(t[i + k]) = LowerChar(w[k])

\* like WordAt, but the trailing \b is not enforced
WordAtNoTrailingBoundary(t, w, i) ==
    /\ AtBoundary(t, i)
    /\ LiteralAt(t, w, i)

\* the pattern \bw\b (one alternative of \b(w1|w2|...)\b) matches at offset i
WordAt(t, w, i) ==
    /\ AtBoundary(t, i)
    /\ LiteralAt(t, w, i)
    /\ AtBoundary(t, i + Len(w))

\* "|".join(sensitive_words) parsed as an alternation: the empty string is
\* one empty alternative
Alternatives(ws) == IF ws = <<>> THEN << <<>> >> ELSE ws

\* the first alternative, in list order, with which \b(...)\b matches at
\* offset i; 0 when there is none
FirstAlt(t, alts, i) ==
    IF \E k \in 1..Len(alts) : WordAt(t, alts[k], i)
    THEN CHOOSE k \in 1..Len(alts) :
            /\ WordAt(t, alts[k], i)
            /\ \A j \in 1..(k - 1) : ~WordAt(t, alts[j], i)
    ELSE 0

\* re.findall(pattern, text, flags=re.IGNORECASE): the group of every
\* non-overlapping match, left to right; from[i] is the search from offset i
FindAll(t, alts) ==
    LET from[i \in 0..(Len(t) + 1)] ==
            IF i > Len(t) THEN <<>>
            ELSE LET k == FirstAlt(t, alts, i) IN
                 IF k = 0 THEN from[i + 1]
                 ELSE <<SubSeq(t, i + 1, i + Len(alts[k]))>>
                          \o from[IF Len(alts[k]) = 0 THEN i + 1
                                  ELSE i + Len(alts[k])]
    IN from[0]

\* the orders in which list(set(...)) may enumerate the set S
ListsOfSet(S) ==
    {l \in [1..Cardinality(S) -> S] : \A e \in S : \E i \in DOMAIN l : l[i] = e}

\* like FoundSet, but the matches are not lower-cased
FoundSetAsMatched(t, ws) == Range(FindAll(t, Alternatives(ws)))

\* set(m.lower() for m in matches) of the EasyOCR and PaddleOCR variants
FoundSet(t, ws) == {LowerStr(m) : m \in Range(FindAll(t, Alternatives(ws)))}

\* like Search, but a substring search without the \b boundaries
SearchSubstring(t, w) == \E i \in 0..Len(t) : LiteralAt(t, w, i)

\* re.search(rf'\b{word}\b', text, re.IGNORECASE)
Search(t, w) == \E i \in 0..Len(t) : WordAt(t, w, i)

\* detect_sensitive_words of the Tesseract variant: the listed words that are
\* found, as listed and in list order
RECURSIVE FoundList(_, _)
FoundList(t, ws) ==
    IF ws = <<>> THEN <<>>
    ELSE (IF Search(t, Head(ws)) THEN <<Head(ws)>> ELSE <<>>)
             \o FoundList(t, Tail(ws))

\* the values detect_sensitive_words of variant v may return
DetectSensitiveWords(v, t, arg) ==
    IF v \in CvVariants
    THEN ListsOfSet(FoundSet(t, EffectiveWords(arg)))
    ELSE {FoundList(t, EffectiveWords(arg))}

(***************************************************************************)
(* Inputs of the scanner.                                                  *)
(***************************************************************************)
TextAlphabet == {"a", "A", "1", " "}

GenTexts == UNION {[1..n -> TextAlphabet] : n \in 0..MaxTextLen}

SampleWords == {<<"a">>, <<"A">>, <<"a", "a">>}

GenLists == UNION {[1..n -> SampleWords] : n \in 0..MaxWords}

SecretText ==
    <<"M", "y", " ", "p", "a", "s", "s", "w", "o", "r", "d", " ", "i", "s",
      " ", "s", "e", "c", "r", "e", "t", "1", "2", "3">>

Password123Text == <<"P", "a", "s", "s", "w", "o", "r", "d", "1", "2", "3">>

EndToEndText ==
    <<"u", "s", "e", "r", ":", " ", "a", "d", "m", "i", "n", " ", "p", "a",
      "s", "s", "w", "o", "r", "d", ":", " ", "h", "u", "n", "t", "e", "r",
      "2">>

HelloText == <<"h", "e", "l", "l", "o", " ", "w", "o", "r", "l", "d">>

ShoutText ==
    <<"P", "W", "D", " ", "p", "w", "d", " ", "S", "e", "c", "r", "e", "t">>

UnderscoreText ==
    <<"m", "y", "_", "p", "w", "d", " ", "P", "W", "D", "_", "1">>

SampleTexts ==
    {SecretText, Password123Text, EndToEndText, HelloText, ShoutText,
     UnderscoreText}

NoImage == [none |-> TRUE, h |-> 0, w |-> 0, px |-> <<>>]
NoFile == [kind |-> "missing", h |-> 0, w |-> 0, px |-> <<>>]
NotRun == [ran |-> FALSE, words |-> <<>>]

(***************************************************************************)
(* The scanner as a program: detect_sensitive_words called on a text and a *)
(* word list, once per variant.                                            *)
(***************************************************************************)
ScanInit ==
    /\ \/ text \in GenTexts /\ wordsArg \in {<<l>> : l \in GenLists}
       \/ text \in SampleTexts /\ wordsArg = <<>>
    /\ found = [v \in Variants |-> NotRun]
    /\ variant = "none"
    /\ pc = "scan"
    /\ image = NoFile
    /\ loaded = NoImage
    /\ processed = NoImage
    /\ passes = 0
    /\ firstPass = NoImage
    /\ ocrOutput = <<>>
    /\ out = <<>>
    /\ steps = <<>>

Detect(v) ==
    /\ pc = "scan"
    /\ ~found[v].ran
    /\ \E r \in DetectSensitiveWords(v, text, wordsArg) :
          found' = [found EXCEPT ![v] = [ran |-> TRUE, words |-> r]]
    /\ UNCHANGED <<variant, pc, image, loaded, processed, passes, firstPass,
                   ocrOutput, text, wordsArg, out, steps>>

DetectEasyOcr == Detect("easyocr")
DetectPaddle == Detect("paddle")
DetectTesseract == Detect("tesseract")

ScanNext == DetectEasyOcr \/ DetectPaddle \/ DetectTesseract

ScanSpec == ScanInit /\ [][ScanNext]_vars

(***************************************************************************)
(* Images.  A file holds RGB pixels (or one channel, when it was saved     *)
(* from a grayscale image); cv2.imread returns None or BGR pixels.         *)
(***************************************************************************)
MaxVal == 255
KernelSize == 3

Pos(h, w) == (1..h) \X (1..w)

Black == <<0, 0, 0>>
White == <<255, 255, 255>>
Red == <<255, 0, 0>>
Palette == {Black, White, Red}

FilesOf(h, w, colours) ==
    {[kind |-> "ok", h |-> h, w |-> w, px |-> f] : f \in [Pos(h, w) -> colours]}

BinarizedFiles == FilesOf(ImgH, ImgW, {Black, White})
ColourFiles == FilesOf(ColH, ColW, Palette)
CorruptFile == [kind |-> "corrupt", h |-> 0, w |-> 0, px |-> <<>>]

Mem(h, w, f) == [none |-> FALSE, h |-> h, w |-> w, px |-> f]

\* cv2.imread(image_path): None when the file is missing or cannot be
\* decoded, else the pixels as three channels in B, G, R order
Imread(file) ==
    IF file.kind # "ok" THEN NoImage
    ELSE Mem(file.h, file.w,
             [p \in DOMAIN file.px |->
                 LET c == file.px[p] IN
                 IF Len(c) = 1 THEN <<c[1], c[1], c[1]>>
                 ELSE <<c[3], c[2], c[1]>>])

\* Image.open(image_path) of a decodable file: the pixels in the file's mode
ImageOpen(file) == Mem(file.h, file.w, file.px)

\* cv2.cvtColor(img, cv2.COLOR_BGR2GRAY): 8-bit fixed-point luma
CvtBgr2Gray(img) ==
    Mem(img.h, img.w,
        [p \in DOMAIN img.px |->
            LET c == img.px[p] IN
            <<(c[1] * 3735 + c[2] * 19235 + c[3] * 9798 + 16384) \div 32768>>])

\* img.convert('L'): ITU-R 601-2 luma of an RGB image, a copy of an L image
ConvertL(img) ==
    Mem(img.h, img.w,
        [p \in DOMAIN img.px |->
            LET c == img.px[p] IN
            IF Len(c) = 1 THEN c
            ELSE <<(c[1] * 19595 + c[2] * 38470 + c[3] * 7471 + 32768)
                       \div 65536>>])

Clamp(x, lo, hi) == IF x < lo THEN lo ELSE IF x > hi THEN hi ELSE x

\* the median of the k x k window around p, the border replicated
WindowMedian(g, p, k) ==
    LET r == k \div 2
        offs == (-r..r) \X (-r..r)
        at(o) == g.px[<<Clamp(p[1] + o[1], 1, g.h),
                        Clamp(p[2] + o[2], 1, g.w)>>][1]
        below(v) == Cardinality({o \in offs : at(o) < v})
        upto(v) == Cardinality({o \in offs : at(o) <= v})
        half == (k * k) \div 2
    IN CHOOSE v \in {at(o) : o \in offs} : below(v) <= half /\ upto(v) > half

\* cv2.medianBlur(gray, 3)
MedianBlur(g, k) ==
    Mem(g.h, g.w, [p \in DOMAIN g.px |-> <<WindowMedian(g, p, k)>>])

\* the k-th pixel of g in row-major order
PixelAt(g, k) == g.px[<<((k - 1) \div g.w) + 1, ((k - 1) % g.w) + 1>>][1]

\* the number of pixels of g with a value <= i
CountUpTo(g, i) ==
    Cardinality({k \in 1..(g.h * g.w) : PixelAt(g, k) <= i})

\* the sum of the pixels of g with a value <= i
SumUpTo(g, i) ==
    LET acc[k \in 0..(g.h * g.w)] ==
            IF k = 0 THEN 0
            ELSE acc[k - 1] + (IF PixelAt(g, k) <= i THEN PixelAt(g, k) ELSE 0)
    IN acc[g.h * g.w]

\* the threshold cv2.threshold computes under THRESH_OTSU: the first gray
\* level i that maximises the between-class variance q1*q2*(mu1-mu2)^2 of
\* the classes <= i and > i, which for n1, n2 pixels of sums s1, s2 is
\* (s1*n2 - s2*n1)^2 / (n1*n2) up to the factor 1/n^2; 0 when no level
\* separates two classes.  A score is <<level, numerator, denominator>>.
OtsuThreshold(g) ==
    LET n == g.h * g.w
        levels == {PixelAt(g, k) : k \in 1..n}
        stats == {<<i, CountUpTo(g, i), SumUpTo(g, i), SumUpTo(g, MaxVal)>> :
                     i \in levels}
        scores == {<<s[1],
                     (s[3] * (n - s[2]) - (s[4] - s[3]) * s[2])
                         * (s[3] * (n - s[2]) - (s[4] - s[3]) * s[2]),
                     s[2] * (n - s[2])>> : s \in {x \in stats : x[2] < n}}
    IN IF scores = {} THEN 0
       ELSE LET best == CHOOSE a \in scores :
                           \A b \in scores :
                               /\ b[1] < a[1] => a[2] * b[3] > b[2] * a[3]
                               /\ b[1] > a[1] => b[2] * a[3] <= a[2] * b[3]
            IN best[1]

\* like Threshold, but THRESH_TOZERO: a pixel above the threshold is kept
ThresholdToZero(g, t) ==
    Mem(g.h, g.w,
        [p \in DOMAIN g.px |-> <<IF g.px[p][1] > t THEN g.px[p][1] ELSE 0>>])

\* like Threshold, but the comparison is >=
ThresholdInclusive(g, t) ==
    Mem(g.h, g.w,
        [p \in DOMAIN g.px |-> <<IF g.px[p][1] >= t THEN MaxVal ELSE 0>>])

\* cv2.threshold(denoised, 0, 255, THRESH_BINARY | THRESH_OTSU), given the
\* Otsu threshold t: a pixel above t becomes 255, every other pixel 0
Threshold(g, t) ==
    Mem(g.h, g.w,
        [p \in DOMAIN g.px |-> <<IF g.px[p][1] > t THEN MaxVal ELSE 0>>])

\* cv2.cvtColor(thresh, cv2.COLOR_GRAY2BGR)
CvtGray2Bgr(g) ==
    Mem(g.h, g.w,
        [p \in DOMAIN g.px |-> <<g.px[p][1], g.px[p][1], g.px[p][1]>>])

\* cv2.cvtColor(processed_bgr, cv2.COLOR_BGR2RGB)
CvtBgr2Rgb(img) ==
    Mem(img.h, img.w,
        [p \in DOMAIN img.px |->
            <<img.px[p][3], img.px[p][2], img.px[p][1]>>])

\* preprocess_image of the EasyOCR and PaddleOCR variants after the load
PreprocessCv(img) ==
    LET gray == CvtBgr2Gray(img)
        denoised == MedianBlur(gray, KernelSize)
        thresh == Threshold(denoised, OtsuThreshold(denoised))
    IN CvtGray2Bgr(thresh)

\* preprocess_image of the Tesseract variant after the load
PreprocessPil(img) == ConvertL(img)

\* preprocess_image(image_path) of variant v on a decodable file
PreprocessImage(v, file) ==
    IF v \in CvVariants THEN PreprocessCv(Imread(file))
    ELSE PreprocessPil(ImageOpen(file))

\* the image that variant v passes to its OCR engine
HandedToOcr(v, img) == IF v = "paddle" THEN CvtBgr2Rgb(img) ELSE img

\* an in-memory image written to a file: cv2 arrays are B, G, R
AsFile(v, img) ==
    [kind |-> "ok", h |-> img.h, w |-> img.w,
     px |-> [p \in DOMAIN img.px |->
                LET c == img.px[p] IN
                IF v \in CvVariants /\ Len(c) = 3 THEN <<c[3], c[2], c[1]>>
                ELSE c]]

(***************************************************************************)
(* preprocess_image as a program: applied to an image file, and then once  *)
(* more to its own result.                                                 *)
(***************************************************************************)
PreInit ==
    /\ variant \in Variants
    /\ image \in BinarizedFiles \cup ColourFiles
    /\ pc = "preprocess"
    /\ passes = 0
    /\ processed = NoImage
    /\ firstPass = NoImage
    /\ loaded = NoImage
    /\ ocrOutput = <<>>
    /\ text = <<>>
    /\ wordsArg = <<>>
    /\ found = [v \in Variants |-> NotRun]
    /\ out = <<>>
    /\ steps = <<>>

PreprocessOnce ==
    /\ pc = "preprocess"
    /\ passes = 0
    /\ processed' = PreprocessImage(variant, image)
    /\ firstPass' = processed'
    /\ passes' = 1
    /\ UNCHANGED <<variant, pc, image, loaded, ocrOutput, text, wordsArg,
                   found, out, steps>>

PreprocessAgain ==
    /\ pc = "preprocess"
    /\ passes = 1
    /\ processed' = PreprocessImage(variant, AsFile(variant, processed))
    /\ passes' = 2
    /\ UNCHANGED <<variant, pc, image, loaded, firstPass, ocrOutput, text,
                   wordsArg, found, out, steps>>

PreNext == PreprocessOnce \/ PreprocessAgain

PreSpec == PreInit /\ [][PreNext]_vars

(***************************************************************************)
(* Properties of preprocess_image.                                         *)
(***************************************************************************)
IsBinarizedFile(f) == \A p \in DOMAIN f.px : f.px[p] \in {Black, White}

\* every pixel has three equal channels, each 0 or 255
IsBinarized3Channel(img) ==
    \A p \in DOMAIN img.px :
        /\ Len(img.px[p]) = 3
        /\ img.px[p][1] \in {0, MaxVal}
        /\ img.px[p][2] = img.px[p][1]
        /\ img.px[p][3] = img.px[p][1]

\* the black-and-white file f with every pixel replaced by the majority
\* colour of its 3x3 neighbourhood (the border replicated)
MajorityFiltered(f) ==
    [p \in DOMAIN f.px |->
        LET whites == Cardinality(
                {o \in (-1..1) \X (-1..1) :
                    f.px[<<Clamp(p[1] + o[1], 1, f.h),
                           Clamp(p[2] + o[2], 1, f.w)>>] = White})
        IN IF whites >= 5 THEN White ELSE Black]

\* C5 as stated: for every already-binarized image, applying the
\* preprocessing of the EasyOCR/PaddleOCR variants twice yields pixel for
\* pixel the same image as applying it once.
C5_Original ==
    (passes = 2 /\ variant \in CvVariants /\ IsBinarizedFile(image))
        => processed = firstPass

\* C5 as amended: for every already-binarized image, one application returns
\* the image with each pixel replaced by the majority of its 3x3
\* neighbourhood (grayscale, Otsu threshold and channel conversion change
\* nothing); when the image is unchanged by that filter, a second
\* application returns the same image as the first, which is the image.
C5_IdempotentOnFilteredImages ==
    (variant \in CvVariants /\ IsBinarizedFile(image) /\ passes >= 1) =>
        /\ firstPass.px = MajorityFiltered(image)
        /\ (passes = 2 /\ MajorityFiltered(image) = image.px)
              => (processed = firstPass /\ processed.px = image.px)

\* a black-and-white image with both colours that the filter leaves
\* unchanged has been preprocessed twice
C5_Witness ==
    /\ passes = 2
    /\ variant \in CvVariants
    /\ IsBinarizedFile(image)
    /\ MajorityFiltered(image) = image.px
    /\ \E p, q \in DOMAIN image.px : image.px[p] = Black /\ image.px[q] = White

\* C6 as stated: in each of the three variants the image handed to the OCR
\* engine is binarized and 3-channel.
C6_Original ==
    passes >= 1 => IsBinarized3Channel(HandedToOcr(variant, processed))

\* C6 as amended: in the EasyOCR and PaddleOCR variants the image handed to
\* the OCR engine is binarized and 3-channel; in the Tesseract variant it is
\* a single-channel grayscale image (values 0..255, black stays 0 and white
\* stays 255) of the size of the input.
C6_BinarizedInCvVariants ==
    passes >= 1 =>
        LET handed == HandedToOcr(variant, processed) IN
        /\ DOMAIN handed.px = DOMAIN image.px
        /\ variant \in CvVariants => IsBinarized3Channel(handed)
        /\ variant = "tesseract" =>
              \A p \in DOMAIN handed.px :
                  /\ Len(handed.px[p]) = 1
                  /\ handed.px[p][1] \in 0..MaxVal
                  /\ image.px[p] = Black => handed.px[p][1] = 0
                  /\ image.px[p] = White => handed.px[p][1] = MaxVal

\* a colour image has been preprocessed by the PaddleOCR variant, and the
\* result has black and white pixels
C6_Witness ==
    /\ passes = 1
    /\ variant = "paddle"
    /\ \E p \in DOMAIN image.px : image.px[p] = Red
    /\ \E p, q \in DOMAIN processed.px :
          processed.px[p] = Black /\ processed.px[q] = White

(***************************************************************************)
(* One run of a script: analyze_image_for_sensitive_data / analyze_image.  *)
(***************************************************************************)
UniformFile(c) ==
    [kind |-> "ok", h |-> ColH, w |-> ColW, px |-> [p \in Pos(ColH, ColW) |-> c]]

CheckerFile ==
    [kind |-> "ok", h |-> ColH, w |-> ColW,
     px |-> [p \in Pos(ColH, ColW) |->
                IF (p[1] + p[2]) % 2 = 0 THEN White ELSE Red]]

RunFiles ==
    {NoFile, CorruptFile, UniformFile(Black), UniformFile(White), CheckerFile}

EndToEndSplit ==
    << <<"u", "s", "e", "r", ":">>,
       <<"a", "d", "m", "i", "n">>,
       <<"p", "a", "s", "s", "w", "o", "r", "d", ":">>,
       <<"h", "u", "n", "t", "e", "r", "2">> >>

EndToEndResults == {<<EndToEndText>>, EndToEndSplit}

\* what the OCR engine may recognize in an image
OcrSamples ==
    EndToEndResults
        \cup {<<>>, <<HelloText>>, <<Password123Text>>, <<SecretText>>,
              <<ShoutText, HelloText>>, <<UnderscoreText>>}

Newline == "\n"

\* like JoinLines, but the fragments are joined without a separator
RECURSIVE JoinNoSeparator(_)
JoinNoSeparator(frags) ==
    IF frags = <<>> THEN <<>>
    ELSE Head(frags) \o JoinNoSeparator(Tail(frags))

\* "\n".join(fragments)
RECURSIVE JoinLines(_)
JoinLines(frags) ==
    IF frags = <<>> THEN <<>>
    ELSE IF Len(frags) = 1 THEN frags[1]
    ELSE frags[1] \o <<Newline>> \o JoinLines(Tail(frags))

\* the load of preprocess_image: cv2.imread, or Image.open, which raises
\* instead of returning an image when the file is missing or corrupt
Load(v, file) ==
    IF v \in CvVariants THEN Imread(file)
    ELSE IF file.kind = "ok" THEN ImageOpen(file) ELSE NoImage

\* like LoadRaises, but the result of the load is never checked
LoadNeverRaises(v, img) == FALSE

\* `if img is None: raise FileNotFoundError(...)`, or Image.open raising
LoadRaises(v, img) == img.none

\* like NoTextRecognized, but the result of the engine is never checked
NoTextNeverChecked(v, frags) == FALSE

\* `if not results:` / `if not recognized_text_list:`; the Tesseract
\* variant has no such test
NoTextRecognized(v, frags) == v \in CvVariants /\ frags = <<>>

Msg(kind, ws) == [kind |-> kind, words |-> ws]

RunInit ==
    /\ variant \in Variants
    /\ image \in RunFiles
    /\ ocrOutput \in OcrSamples
    /\ pc = "load"
    /\ loaded = NoImage
    /\ processed = NoImage
    /\ passes = 0
    /\ firstPass = NoImage
    /\ text = <<>>
    /\ wordsArg = <<>>
    /\ found = [v \in Variants |-> NotRun]
    /\ out = <<>>
    /\ steps = <<>>

\* preprocess_image, up to the check of the loaded image
LoadImage ==
    /\ pc = "load"
    /\ loaded' = Load(variant, image)
    /\ pc' = IF LoadRaises(variant, loaded') THEN "load_error" ELSE "preprocess"
    /\ steps' = Append(steps, "load")
    /\ UNCHANGED <<variant, image, processed, passes, firstPass, ocrOutput,
                   text, wordsArg, found, out>>

\* the rest of preprocess_image; cv2.cvtColor and convert raise on no image
Preprocess ==
    /\ pc = "preprocess"
    /\ IF loaded.none
       THEN /\ pc' = "crash"
            /\ UNCHANGED <<processed, passes, firstPass>>
       ELSE /\ processed' = IF variant \in CvVariants
                            THEN PreprocessCv(loaded)
                            ELSE PreprocessPil(loaded)
            /\ firstPass' = processed'
            /\ passes' = 1
            /\ pc' = "ocr"
    /\ steps' = Append(steps, "preprocess")
    /\ UNCHANGED <<variant, image, loaded, ocrOutput, text, wordsArg, found,
                   out>>

\* the OCR engine is called on the preprocessed image; its fragments are
\* joined into the recognized text
Recognize ==
    /\ pc = "ocr"
    /\ steps' = Append(steps, "ocr")
    /\ IF NoTextRecognized(variant, ocrOutput)
       THEN /\ out' = Append(out, Msg("no_text", <<>>))
            /\ pc' = "done"
            /\ UNCHANGED text
       ELSE /\ text' = JoinLines(ocrOutput)
            /\ out' = IF variant \in CvVariants
                      THEN Append(out, Msg("ocr_result", <<>>))
                      ELSE out
            /\ pc' = "scan"
    /\ UNCHANGED <<variant, image, loaded, processed, passes, firstPass,
                   ocrOutput, wordsArg, found>>

\* detect_sensitive_words(recognized_text)
Scan ==
    /\ pc = "scan"
    /\ \E r \in DetectSensitiveWords(variant, text, wordsArg) :
          found' = [found EXCEPT ![variant] = [ran |-> TRUE, words |-> r]]
    /\ pc' = "report"
    /\ steps' = Append(steps, "scan")
    /\ UNCHANGED <<variant, image, loaded, processed, passes, firstPass,
                   ocrOutput, text, wordsArg, out>>

\* the verdict is printed
Report ==
    /\ pc = "report"
    /\ out' = Append(out, IF found[variant].words # <<>>
                          THEN Msg("warning", found[variant].words)
                          ELSE Msg("clean", <<>>))
    /\ pc' = "done"
    /\ steps' = Append(steps, "report")
    /\ UNCHANGED <<variant, image, loaded, processed, passes, firstPass,
                   ocrOutput, text, wordsArg, found>>

RunNext == LoadImage \/ Preprocess \/ Recognize \/ Scan \/ Report

\* a script runs to its end: every step is followed by the next one
Spec == RunInit /\ [][RunNext]_vars /\ WF_vars(RunNext)

(***************************************************************************)
(* Properties of a run.                                                    *)
(***************************************************************************)
Kinds(o) == {o[i].kind : i \in 1..Len(o)}

\* C7: if the image file is missing or cannot be decoded, the run fails with
\* the load error and halts there: no OCR, no scan, and no verdict printed.
C7_LoadErrorHalts ==
    /\ image.kind # "ok" =>
          /\ pc \in {"load", "load_error"}
          /\ pc = "load_error" <=> steps = <<"load">>
          /\ pc = "load" <=> steps = <<>>
          /\ out = <<>>
          /\ ~found[variant].ran
          /\ processed = NoImage
    /\ pc = "load_error" => image.kind # "ok"

\* the load of a corrupt file has failed in the EasyOCR variant
C7_Witness ==
    /\ pc = "load_error"
    /\ image = CorruptFile
    /\ variant = "easyocr"

\* C8 as stated: when the engine recognizes no text in a loaded image, every
\* variant prints the 'no text' message and ends without an error, without
\* running the scanner and without printing a verdict.
C8_Original ==
    (image.kind = "ok" /\ ocrOutput = <<>>) =>
        /\ pc \notin {"load_error", "crash", "scan", "report"}
        /\ ~found[variant].ran
        /\ pc = "done" => out = <<Msg("no_text", <<>>)>>

\* C8 as amended: when the engine recognizes no text in a loaded image, the
\* run ends without an error; the EasyOCR and PaddleOCR variants print the
\* 'no text' message, do not run the scanner and print no verdict; the
\* Tesseract variant runs the scanner on the empty text and prints the
\* 'nothing found' verdict and no 'no text' message.
C8_NoTextIsNotAnError ==
    (image.kind = "ok" /\ ocrOutput = <<>>) =>
        /\ pc \notin {"load_error", "crash"}
        /\ variant \in CvVariants =>
              /\ pc \notin {"scan", "report"}
              /\ ~found[variant].ran
              /\ pc = "done" =>
                    /\ out = <<Msg("no_text", <<>>)>>
                    /\ steps = <<"load", "preprocess", "ocr">>
        /\ (variant = "tesseract" /\ pc = "done") =>
              /\ found[variant] = [ran |-> TRUE, words |-> <<>>]
              /\ out = <<Msg("clean", <<>>)>>

\* the PaddleOCR variant has ended after the engine recognized nothing
C8_Witness ==
    /\ pc = "done"
    /\ variant = "paddle"
    /\ image = CheckerFile
    /\ ocrOutput = <<>>
    /\ out = <<Msg("no_text", <<>>)>>

StageOrder == <<"load", "preprocess", "ocr", "scan", "report">>

IsPrefix(s, t) == Len(s) <= Len(t) /\ \A i \in 1..Len(s) : s[i] = t[i]

EndToEndRun == image.kind = "ok" /\ ocrOutput \in EndToEndResults

\* C9: for a loadable image in which the engine recognizes "user: admin
\* password: hunter2" (as one fragment or split at the spaces), the run
\* passes load, preprocess, OCR and scan in that order, eventually reaches
\* the reporter, and the reporter prints the warning that lists "password"
\* and not the 'nothing found' message.
C9_EndToEnd ==
    /\ [](EndToEndRun => (IsPrefix(steps, StageOrder) /\ "clean" \notin Kinds(out)))
    /\ (EndToEndRun /\ pc = "load")
          ~> /\ pc = "done"
             /\ steps = StageOrder
             /\ out[Len(out)] = Msg("warning", <<Password>>)

\* the Tesseract variant has reported "password" for the split fragments
C9_Witness ==
    /\ pc = "done"
    /\ variant = "tesseract"
    /\ ocrOutput = EndToEndSplit
    /\ steps = StageOrder
    /\ out = <<Msg("warning", <<Password>>)>>

(***************************************************************************)
(* Properties of the scanner.                                              *)
(***************************************************************************)
\* w occurs in t, letter case aside, with no letter, digit or underscore
\* directly before it and none directly after it
OccursWhole(t, w) ==
    \E i \in 0..(Len(t) - Len(w)) :
        /\ \A k \in 1..Len(w) : LowerChar(t[i + k]) = LowerChar(w[k])
        /\ i = 0 \/ ~IsWordChar(t[i])
        /\ i + Len(w) = Len(t) \/ ~IsWordChar(t[i + Len(w) + 1])

\* the result r reports the word w, letter case aside
Reports(r, w) == \E j \in 1..Len(r) : LowerStr(r[j]) = LowerStr(w)

NoDuplicates(r) == \A i, j \in 1..Len(r) : r[i] = r[j] => i = j
AllLowerCase(r) == \A j \in 1..Len(r) : r[j] = LowerStr(r[j])
TheList == EffectiveWords(wordsArg)

\* C1: in every variant a target word is reported only if it occurs in the
\* text, letter case aside, with no letter, digit or underscore directly
\* before it and none directly after it; for the text "Password123" and the
\* default list the word "password" is not in the result.
C1_WholeWordOnly ==
    \A v \in Variants :
        found[v].ran =>
            /\ \A k \in 1..Len(TheList) :
                  Reports(found[v].words, TheList[k])
                      => OccursWhole(text, TheList[k])
            /\ (text = Password123Text /\ wordsArg = <<>>)
                  => ~Reports(found[v].words, Password)

\* "Password123" has been scanned by all three variants with the default list
C1_Witness ==
    /\ text = Password123Text
    /\ wordsArg = <<>>
    /\ \A v \in Variants : found[v].ran /\ found[v].words = <<>>

\* C2 as stated: for "My password is secret123" and the default list every
\* variant returns exactly {"password", "secret"}.
C2_Original ==
    \A v \in Variants :
        (found[v].ran /\ text = SecretText /\ wordsArg = <<>>)
            => Range(found[v].words) = {Password, Secret}

\* C2 as amended: for "My password is secret123" and the default list every
\* variant returns exactly {"password"}: "secret" directly followed by
\* digits is not reported.
C2_OnlyPassword ==
    \A v \in Variants :
        (found[v].ran /\ text = SecretText /\ wordsArg = <<>>)
            => /\ Range(found[v].words) = {Password}
               /\ Len(found[v].words) = 1

\* "My password is secret123" has been scanned by all three variants
C2_Witness ==
    /\ text = SecretText
    /\ wordsArg = <<>>
    /\ \A v \in Variants : found[v].ran /\ Len(found[v].words) = 1

\* a listed word that occurs as a whole word is reported, whatever its
\* letter case in the text and however often it occurs
ReportsEveryOccurringWord(r) ==
    \A k \in 1..Len(TheList) :
        OccursWhole(text, TheList[k]) => Reports(r, TheList[k])

\* C3 as stated: in each of the three variants the result has no element
\* twice, every element is all lower-case, and a word is reported whatever
\* its letter case in the text and however often it occurs.
C3_Original ==
    \A v \in Variants :
        found[v].ran =>
            /\ NoDuplicates(found[v].words)
            /\ AllLowerCase(found[v].words)
            /\ ReportsEveryOccurringWord(found[v].words)

\* C3 as amended: in the EasyOCR and PaddleOCR variants the result has no
\* element twice and every element is all lower-case; in the Tesseract
\* variant the result is the list's entries that occur as whole words, as the
\* list writes them and in the list's order (so it is duplicate-free and
\* lower-case when the list is); in all three a word is reported whatever its
\* letter case in the text and however often it occurs.
C3_DistinctLowerCased ==
    \A v \in Variants :
        found[v].ran =>
            /\ v \in CvVariants =>
                  /\ NoDuplicates(found[v].words)
                  /\ AllLowerCase(found[v].words)
            /\ v = "tesseract" =>
                  found[v].words =
                      SelectSeq(TheList, LAMBDA w : OccursWhole(text, w))
            /\ ReportsEveryOccurringWord(found[v].words)

\* a text with upper-case and repeated occurrences has been scanned: two
\* words are reported by the EasyOCR variant, and the Tesseract variant
\* returns an upper-case list entry as listed
C3_Witness ==
    \/ /\ text = ShoutText
       /\ found["easyocr"].ran
       /\ Range(found["easyocr"].words) = {Pwd, Secret}
       /\ found["tesseract"].ran
    \/ /\ found["tesseract"].ran
       /\ found["tesseract"].words = << <<"A">> >>
       /\ text = <<"a", " ", "a">>
       /\ found["paddle"].ran

\* C4 as stated: in every variant, if no target word occurs in the text as
\* a whole word then the result is empty, and every element of a result is a
\* word of the list (letter case aside).
C4_Original ==
    \A v \in Variants :
        found[v].ran =>
            /\ (\A k \in 1..Len(TheList) : ~OccursWhole(text, TheList[k]))
                  => found[v].words = <<>>
            /\ \A j \in 1..Len(found[v].words) :
                  \E k \in 1..Len(TheList) :
                      LowerStr(found[v].words[j]) = LowerStr(TheList[k])

\* C10 as stated: for every text and every list the three variants return
\* the same set of words (compared letter case aside).
C10_Original ==
    (\A v \in Variants : found[v].ran) =>
        \A v1, v2 \in Variants :
            {LowerStr(w) : w \in Range(found[v1].words)}
                = {LowerStr(w) : w \in Range(found[v2].words)}

====
